---------------------------- MODULE Spec2Model ----------------------------
(***************************************************************************)
(* Loan staging engine of ifrs9pro_backend (app/utils/staging.py).        *)
(*                                                                         *)
(* The model has a static loan population of one portfolio, the stored    *)
(* per-loan staging columns, the table of StagingResult rows, and one     *)
(* staging run at a time that pages through the population.  Money is in  *)
(* integer cents, so round(v, 2) of a sum of balances is that sum.         *)
(***************************************************************************)
EXTENDS Integers, Sequences, FiniteSets, TLC

(***************************************************************************)
(* Bounds of the model.                                                    *)
(***************************************************************************)
NumLoans == 2       \* loans of the portfolio, ids 1..NumLoans
batch_size == 1     \* page size of one fetch (5000 in the source)
MaxNdia == 3        \* largest days-past-due value a loan carries
MaxRuns == 2        \* staging runs in one behaviour
MaxLen == 4         \* longest range string handed to parse_days_range
MaxDays == 33       \* largest day count written out in a range string
MaxStaged == 2      \* staged loans in one provision request
MaxRows == 2        \* distinct row keys in the uploaded files

NULL == -1          \* SQL NULL / Python None of a numeric column
None == -1          \* max_days of an unbounded range
NoLabel == "NULL"   \* NULL of a label column

LoanIds == 1..NumLoans

(***************************************************************************)
(* Range strings are sequences of one-character strings.                   *)
(***************************************************************************)
DigitChars == {"0", "1", "2", "3", "4", "5", "6", "7", "8", "9"}

DigitVal ==
  ("0" :> 0) @@ ("1" :> 1) @@ ("2" :> 2) @@ ("3" :> 3) @@ ("4" :> 4) @@
  ("5" :> 5) @@ ("6" :> 6) @@ ("7" :> 7) @@ ("8" :> 8) @@ ("9" :> 9)

DigitChar ==
  (0 :> "0") @@ (1 :> "1") @@ (2 :> "2") @@ (3 :> "3") @@ (4 :> "4") @@
  (5 :> "5") @@ (6 :> "6") @@ (7 :> "7") @@ (8 :> "8") @@ (9 :> "9")

RECURSIVE DigitsValue(_)
DigitsValue(s) ==
  IF s = <<>> THEN 0
  ELSE 10 * DigitsValue(SubSeq(s, 1, Len(s) - 1)) + DigitVal[s[Len(s)]]

RECURSIVE Strip(_)
Strip(s) ==
  IF s = <<>> THEN s
  ELSE IF s[1] = " " THEN Strip(Tail(s))
  ELSE IF s[Len(s)] = " " THEN Strip(SubSeq(s, 1, Len(s) - 1))
  ELSE s

\* Python int(str): surrounding blanks, an optional sign, then digits.
PyInt(s) ==
  LET t == Strip(s)
      signed == t # <<>> /\ t[1] \in {"+", "-"}
      body == IF signed THEN Tail(t) ELSE t
      ok == body # <<>> /\ \A i \in 1..Len(body) : body[i] \in DigitChars
  IN  [ok |-> ok,
       val |-> IF ~ok THEN 0
               ELSE IF signed /\ t[1] = "-" THEN 0 - DigitsValue(body)
               ELSE DigitsValue(body)]

\* Python str.split(sep)
RECURSIVE Split(_, _)
Split(s, sep) ==
  IF \A i \in 1..Len(s) : s[i] # sep THEN <<s>>
  ELSE LET i == CHOOSE k \in 1..Len(s) :
                  s[k] = sep /\ \A j \in 1..(k - 1) : s[j] # sep
       IN  <<SubSeq(s, 1, i - 1)>> \o Split(SubSeq(s, i + 1, Len(s)), sep)

\* Result of parse_days_range: err = "none" and (min_days, max_days), or the
\* ValueError raised; detail is the text the error message carries.
Parsed(lo, hi) == [err |-> "none", min_days |-> lo, max_days |-> hi, detail |-> <<>>]
ParseError(kind, text) == [err |-> kind, min_days |-> 0, max_days |-> None, detail |-> text]

\* parse_days_range with the maximum of "A-B" taken as inclusive.
parse_days_range_inclusive_max(days_range) ==
  IF days_range = <<>> THEN Parsed(0, None)
  ELSE IF days_range[Len(days_range)] = "+"
  THEN LET head == SubSeq(days_range, 1, Len(days_range) - 1)
           n == PyInt(head)
       IN  IF n.ok THEN Parsed(n.val, None) ELSE ParseError("int", head)
  ELSE LET parts == Split(days_range, "-")
       IN  IF Len(parts) # 2 THEN ParseError("format", days_range)
           ELSE LET a == PyInt(parts[1])
                    b == PyInt(parts[2])
                IN  IF ~a.ok THEN ParseError("int", parts[1])
                    ELSE IF ~b.ok THEN ParseError("int", parts[2])
                    ELSE Parsed(a.val, b.val + 1)

parse_days_range(days_range) ==
  IF days_range = <<>> THEN Parsed(0, None)
  ELSE IF days_range[Len(days_range)] = "+"
  THEN LET head == SubSeq(days_range, 1, Len(days_range) - 1)
           n == PyInt(head)
       IN  IF n.ok THEN Parsed(n.val, None) ELSE ParseError("int", head)
  ELSE LET parts == Split(days_range, "-")
       IN  IF Len(parts) # 2 THEN ParseError("format", days_range)
           ELSE LET a == PyInt(parts[1])
                    b == PyInt(parts[2])
                IN  IF ~a.ok THEN ParseError("int", parts[1])
                    ELSE IF ~b.ok THEN ParseError("int", parts[2])
                    ELSE Parsed(a.val, b.val)

\* The decimal numeral of a natural number.
RECURSIVE Numeral(_)
Numeral(n) ==
  IF n < 10 THEN <<DigitChar[n]>>
  ELSE Numeral(n \div 10) \o <<DigitChar[n % 10]>>

IsNumeral(t) == t # <<>> /\ \A i \in 1..Len(t) : t[i] \in DigitChars

\* The range strings of the specification's grammar: empty, "N+", "A-B".
WellFormedRange(t) ==
  \/ t = <<>>
  \/ t[Len(t)] = "+" /\ IsNumeral(SubSeq(t, 1, Len(t) - 1))
  \/ \E k \in 1..Len(t) :
        /\ t[k] = "-"
        /\ IsNumeral(SubSeq(t, 1, k - 1))
        /\ IsNumeral(SubSeq(t, k + 1, Len(t)))

(***************************************************************************)
(* Staging configurations the runs are started with.                       *)
(***************************************************************************)
Rng(a, b) == <<DigitChar[a], "-", DigitChar[b]>>    \* "a-b"
Plus(a) == <<DigitChar[a], "+">>                     \* "a+"
MinusPlus(a) == <<"-", DigitChar[a], "+">>           \* "-a+"

EclLabels == {"Stage 1", "Stage 2", "Stage 3"}
LocalLabels == {"Current", "OLEM", "Substandard", "Doubtful", "Loss"}

ECLStagingConfig(r1, r2, r3) == [stage_1 |-> r1, stage_2 |-> r2, stage_3 |-> r3]

LocalImpairmentConfig(c, o, s, d, l) ==
  [current |-> c, olem |-> o, substandard |-> s, doubtful |-> d, loss |-> l]

\* contiguous; a gap at 1; overlapping; Stage 3 bounded above and below Stage 2;
\* a malformed Stage 2 range that int() rejects; a malformed Stage 3 range that
\* int() accepts
EclConfigs ==
  { ECLStagingConfig(Rng(0, 1), Rng(1, 3), Plus(3)),
    ECLStagingConfig(Rng(0, 1), Rng(2, 3), Plus(3)),
    ECLStagingConfig(Rng(0, 3), Rng(1, 3), Plus(2)),
    ECLStagingConfig(Rng(1, 2), Rng(2, 4), Rng(0, 1)),
    ECLStagingConfig(Rng(0, 1), <<"a">>, Plus(3)),
    ECLStagingConfig(Rng(0, 1), Rng(1, 3), MinusPlus(1)) }

\* contiguous; a gap at 1; overlapping; Current starting above 0 and Loss bounded;
\* a malformed Substandard range
LocalConfigs ==
  { LocalImpairmentConfig(Rng(0, 1), Rng(1, 2), Rng(2, 3), Rng(3, 4), Plus(4)),
    LocalImpairmentConfig(Rng(0, 1), Rng(2, 3), Rng(3, 4), Rng(4, 5), Plus(5)),
    LocalImpairmentConfig(Rng(0, 2), Rng(1, 3), Rng(2, 4), Rng(3, 4), Plus(3)),
    LocalImpairmentConfig(Rng(1, 2), Rng(0, 1), Rng(2, 3), Rng(3, 4), Rng(4, 5)),
    LocalImpairmentConfig(Rng(0, 1), Rng(1, 2), <<"2">>, Rng(3, 4), Plus(4)) }

Fns == {"stage_loans_ecl_orm", "stage_loans_local_impairment_orm",
        "stage_loans_ecl_orm_sync", "stage_loans_local_impairment_orm_sync"}
AsyncFns == {"stage_loans_ecl_orm", "stage_loans_local_impairment_orm"}
SyncFns == Fns \ AsyncFns
EclFns == {"stage_loans_ecl_orm", "stage_loans_ecl_orm_sync"}
LocalFns == Fns \ EclFns

\* staging_type of the StagingResult rows a function reads or writes
staging_type(fn) == IF fn \in EclFns THEN "ecl" ELSE "local_impairment"
Labels(fn) == IF fn \in EclFns THEN EclLabels ELSE LocalLabels
Configs(fn) == IF fn \in EclFns THEN EclConfigs ELSE LocalConfigs

\* The parsed ranges of a configuration, in the order the function parses them.
RangeStrings(fn, config) ==
  IF fn \in EclFns
  THEN <<config.stage_1, config.stage_2, config.stage_3>>
  ELSE <<config.current, config.olem, config.substandard, config.doubtful,
         config.loss>>

ParsedRanges(fn, config) ==
  LET rs == RangeStrings(fn, config)
  IN  [i \in 1..Len(rs) |-> parse_days_range(rs[i])]

ParseFails(fn, config) ==
  \E i \in 1..Len(RangeStrings(fn, config)) :
     ParsedRanges(fn, config)[i].err # "none"

(***************************************************************************)
(* The classification chains, one per staging function.  NoLabel is the   *)
(* outcome of a chain none of whose branches is taken.                     *)
(***************************************************************************)
\* staging.py 79-90: Stage 3 lower bound, then Stage 2 interval, else Stage 1
ecl_orm_stage(ndia, rg) ==
  IF ndia >= rg[3].min_days THEN "Stage 3"
  ELSE IF ndia >= rg[2].min_days /\ (rg[2].max_days = None \/ ndia < rg[2].max_days)
  THEN "Stage 2"
  ELSE "Stage 1"

\* staging.py 494-508
ecl_orm_sync_stage(ndia, rg) ==
  IF ndia >= 0 /\ (rg[1].max_days = None \/ ndia < rg[1].max_days) THEN "Stage 1"
  ELSE IF ndia >= rg[2].min_days /\ (rg[2].max_days = None \/ ndia < rg[2].max_days)
  THEN "Stage 2"
  ELSE IF ndia >= rg[3].min_days /\ (rg[3].max_days = None \/ ndia # NULL)
  THEN "Stage 3"
  ELSE NoLabel

\* staging.py 254-273
local_orm_category(ndia, rg) ==
  IF ndia >= 0 /\ (rg[1].max_days = None \/ ndia < rg[1].max_days) THEN "Current"
  ELSE IF ndia >= rg[2].min_days /\ (rg[2].max_days = None \/ ndia < rg[2].max_days)
  THEN "OLEM"
  ELSE IF ndia >= rg[3].min_days /\ (rg[3].max_days = None \/ ndia < rg[3].max_days)
  THEN "Substandard"
  ELSE IF ndia >= rg[4].min_days /\ (rg[4].max_days = None \/ ndia < rg[4].max_days)
  THEN "Doubtful"
  ELSE IF ndia >= rg[5].min_days /\ (rg[5].max_days = None \/ ndia # NULL)
  THEN "Loss"
  ELSE NoLabel

\* staging.py 641-660
local_orm_sync_category(ndia, rg) ==
  IF ndia >= 0 /\ (rg[1].max_days = None \/ ndia < rg[1].max_days) THEN "Current"
  ELSE IF ndia >= rg[2].min_days /\ (rg[2].max_days = None \/ ndia < rg[2].max_days)
  THEN "OLEM"
  ELSE IF ndia >= rg[3].min_days /\ (rg[3].max_days = None \/ ndia < rg[3].max_days)
  THEN "Substandard"
  ELSE IF ndia >= rg[4].min_days /\ (rg[4].max_days = None \/ ndia < rg[4].max_days)
  THEN "Doubtful"
  ELSE IF ndia >= rg[5].min_days /\ (rg[5].max_days = None \/ ndia # NULL)
  THEN "Loss"
  ELSE NoLabel

\* The days-past-due a function classifies a loan by; NULL when it skips the loan.
\* staging.py 69, 244 (None becomes 0) and 483-487, 631-635 (None is skipped)
ndia_used(fn, loan) ==
  IF loan.ndia # NULL THEN loan.ndia
  ELSE IF fn \in AsyncFns THEN 0 ELSE NULL

\* The label the classification chain of fn gives a days-past-due value.
Classify(fn, ndia, rg) ==
  CASE fn = "stage_loans_ecl_orm" -> ecl_orm_stage(ndia, rg)
    [] fn = "stage_loans_ecl_orm_sync" -> ecl_orm_sync_stage(ndia, rg)
    [] fn = "stage_loans_local_impairment_orm" -> local_orm_category(ndia, rg)
    [] fn = "stage_loans_local_impairment_orm_sync" -> local_orm_sync_category(ndia, rg)

(***************************************************************************)
(* State.                                                                  *)
(***************************************************************************)
VARIABLES
  loans,             \* id -> [ndia, outstanding_loan_balance]: the static population
  db,                \* id -> committed staging columns of the Loan row
  staging_results,   \* committed StagingResult rows, oldest first
  clock,             \* datetime.now()
  pc,                \* "idle", "fetch", "commit", "summary"
  fn,                \* the staging function that is running
  config,            \* its configuration
  ranges,            \* the parsed (min_days, max_days) of its ranges
  total_loans,       \* result of the count query
  timestamp,         \* the run's timestamp
  offset,            \* offset of the next page
  counts,            \* stage_counts / category_counts
  balances,          \* stage_balances / category_balances
  session,           \* rows the session holds modified and uncommitted
  staged,            \* id -> the labels the run's loop body gave the loan, one
                     \* entry per time it took the loan (NoLabel: none given)
  committed,         \* pages the run has committed
  before,            \* the stored rows when the run started
  hist,              \* one record per finished run, oldest first
  request,           \* the call of a function outside the staging runs
  response,          \* what that call returned
  suspended,         \* the position and local state of a second staging run
                     \* while the first one executes
  tables,            \* committed Loan, Guarantee and Client rows
  ingest             \* the position and local state of ingest_portfolio_data

vars == <<loans, db, staging_results, clock, pc, fn, config, ranges, total_loans,
          timestamp, offset, counts, balances, session, staged, committed, before,
          hist, request, response, suspended, tables, ingest>>

\* what a staging run leaves alone
call_vars == <<request, response, suspended, tables, ingest>>

\* what a call outside the ingestion leaves alone
ingest_vars == <<tables, ingest>>

run_vars == <<fn, config, ranges, total_loans, timestamp, offset, counts, balances,
              session, staged, committed, before>>

StageNo(label) ==
  CASE label = "Stage 1" -> 1 [] label = "Stage 2" -> 2 [] label = "Stage 3" -> 3

EmptySession == [l \in {} |-> 0]
NoRun == "none"
NoRequest == [op |-> "none"]
NoResponse == [status |-> "none"]

\* No rows in the three tables a file is ingested into.
EmptyTables == [Loan |-> {}, Guarantee |-> {}, Client |-> {}]

\* The position and local state of ingest_portfolio_data while it is not called.
NoIngest ==
  [pc |-> "idle", results |-> <<>>, pending |-> EmptyTables, before |-> EmptyTables]

\* The position and local state of a run that is not active.
IdleRun ==
  [pc |-> "idle", fn |-> NoRun, config |-> <<>>, ranges |-> <<>>,
   total_loans |-> 0, timestamp |-> NULL, offset |-> 0, counts |-> <<>>,
   balances |-> <<>>, session |-> EmptySession, staged |-> <<>>,
   committed |-> 0, before |-> <<>>]

RECURSIVE SumBalance(_, _)
SumBalance(S, ls) ==
  IF S = {} THEN 0
  ELSE LET l == CHOOSE x \in S : TRUE
           b == ls[l].outstanding_loan_balance
       IN  (IF b = NULL THEN 0 ELSE b) + SumBalance(S \ {l}, ls)

\* A freshly ingested row, and the row an earlier staging left with every
\* loan in the most severe category.
FreshRow == [ecl_stage |-> NULL, stage |-> NoLabel,
             impairment_category |-> NoLabel, last_staged_at |-> NULL]

StagedRow(loan) ==
  [ecl_stage |-> 3, stage |-> IF loan.ndia = NULL THEN NoLabel ELSE "Stage 3",
   impairment_category |-> "Loss", last_staged_at |-> 0]

\* The rates with OLEM provided for like Current.
provision_rates_flat ==
  [k \in LocalLabels |->
     CASE k = "Current" -> 1 [] k = "OLEM" -> 1 [] k = "Substandard" -> 25
       [] k = "Doubtful" -> 50 [] k = "Loss" -> 100]

\* The provision rates of the local impairment staging functions, in percent.
provision_rates ==
  [k \in LocalLabels |->
     CASE k = "Current" -> 1 [] k = "OLEM" -> 5 [] k = "Substandard" -> 25
       [] k = "Doubtful" -> 50 [] k = "Loss" -> 100]

\* provision_amount and provision_rate of the categories of a summary: the
\* balance in cents times the rate in percent, so in hundredths of a cent;
\* an ECL summary has neither.
ProvisionAmounts(type, bal) ==
  IF type = "ecl" THEN <<>> ELSE [k \in LocalLabels |-> bal[k] * provision_rates[k]]

ProvisionRates(type) == IF type = "ecl" THEN <<>> ELSE provision_rates

SummaryRow(type, status, ts, total, cnt, bal, cfg) ==
  [staging_type |-> type, status |-> status, timestamp |-> ts,
   total_loans |-> total, counts |-> cnt, balances |-> bal, config |-> cfg,
   provision_amount |-> ProvisionAmounts(type, bal),
   provision_rate |-> ProvisionRates(type)]

\* The row of an earlier run that put every loan in the most severe category.
EarlierSummary(type, ls) ==
  LET labs == IF type = "ecl" THEN EclLabels ELSE LocalLabels
      worst == IF type = "ecl" THEN "Stage 3" ELSE "Loss"
  IN  SummaryRow(type, "completed", 0, NumLoans,
                 [c \in labs |-> IF c = worst THEN NumLoans ELSE 0],
                 [c \in labs |-> IF c = worst THEN SumBalance(LoanIds, ls) ELSE 0],
                 <<>>)

\* outstanding balance of a loan, in cents; every second loan has none recorded
BalanceOf(l) == IF l % 2 = 0 THEN NULL ELSE 100 * l + 50

Init ==
  /\ \E nd \in [LoanIds -> {NULL} \cup 0..MaxNdia] :
        loans = [l \in LoanIds |->
                   [ndia |-> nd[l], outstanding_loan_balance |-> BalanceOf(l)]]
  /\ \/ /\ db = [l \in LoanIds |-> FreshRow]
        /\ staging_results = <<>>
     \/ /\ db = [l \in LoanIds |-> StagedRow(loans[l])]
        /\ staging_results = <<EarlierSummary("ecl", loans),
                               EarlierSummary("local_impairment", loans)>>
  /\ clock = 1
  /\ pc = "idle"
  /\ fn = NoRun
  /\ config = <<>>
  /\ ranges = <<>>
  /\ total_loans = 0
  /\ timestamp = NULL
  /\ offset = 0
  /\ counts = <<>>
  /\ balances = <<>>
  /\ session = EmptySession
  /\ staged = <<>>
  /\ committed = 0
  /\ before = <<>>
  /\ hist = <<>>
  /\ request = NoRequest
  /\ response = NoResponse
  /\ suspended = IdleRun
  /\ tables = EmptyTables
  /\ ingest = NoIngest

(***************************************************************************)
(* One staging run.                                                        *)
(***************************************************************************)
\* The category the loop body decides for a loan (NoLabel: none).
LabelFor(f, row, loan, rg) ==
  LET ndia == ndia_used(f, loan)
  IN  IF ndia = NULL THEN NoLabel ELSE Classify(f, ndia, rg)

\* The columns the loop body assigns on the loan: the row as the session then
\* holds it.
WriteLoan(f, row, label, ts) ==
  CASE f = "stage_loans_ecl_orm" ->
         [row EXCEPT !.ecl_stage = StageNo(label), !.last_staged_at = ts]
    [] f = "stage_loans_local_impairment_orm" ->
         [row EXCEPT !.impairment_category = IF label = NoLabel THEN @ ELSE label,
                     !.last_staged_at = ts]
    [] f = "stage_loans_ecl_orm_sync" ->
         [row EXCEPT !.stage = IF label = NoLabel THEN @ ELSE label]
    [] f = "stage_loans_local_impairment_orm_sync" ->
         [row EXCEPT !.impairment_category = IF label = NoLabel THEN @ ELSE label]

\* What the loop body does to one loan: the row it leaves in the session and
\* the category whose counters it increments.
StageLoanSkipStaged(f, row, loan, rg, ts) ==
  IF row.last_staged_at # NULL THEN [row |-> row, label |-> NoLabel]
  ELSE [row |-> WriteLoan(f, row, LabelFor(f, row, loan, rg), ts),
        label |-> LabelFor(f, row, loan, rg)]

StageLoan(f, row, loan, rg, ts) ==
  [row |-> WriteLoan(f, row, LabelFor(f, row, loan, rg), ts),
   label |-> LabelFor(f, row, loan, rg)]

\* The pages a fetch at an offset can return.  The async functions order by
\* Loan.id; the sync functions give no order, so the store may return the
\* rows of any ordering of the population.
PageSize(off) ==
  IF NumLoans - off <= 0 THEN 0
  ELSE IF NumLoans - off < batch_size THEN NumLoans - off ELSE batch_size

OrderedPage(off) == {l \in LoanIds : off < l /\ l <= off + batch_size}

UnorderedPages(off) == {P \in SUBSET LoanIds : Cardinality(P) = PageSize(off)}

Pages(f, off) == IF f \in AsyncFns THEN {OrderedPage(off)} ELSE UnorderedPages(off)

\* The label column a function writes.
StoredLabel(f, row) ==
  CASE f = "stage_loans_ecl_orm" ->
         IF row.ecl_stage = NULL THEN NoLabel
         ELSE IF row.ecl_stage = 1 THEN "Stage 1"
         ELSE IF row.ecl_stage = 2 THEN "Stage 2" ELSE "Stage 3"
    [] f = "stage_loans_ecl_orm_sync" -> row.stage
    [] OTHER -> row.impairment_category

NoSummary == [total_loans |-> 0, counts |-> <<>>, balances |-> <<>>]

\* The record of a finished run: what it was called with, how it ended
\* ("success", "error": an exception reached the except clause, "crash": the
\* process died), what it returned and the stored state it left.
Finished(f, c, status, ts, pages, st, bef, after, summary, results) ==
  [fn |-> f, config |-> c, status |-> status, timestamp |-> ts,
   committed |-> pages, staged |-> st, before |-> bef, after |-> after,
   summary |-> summary, results |-> results]

Idle ==
  /\ pc' = "idle"
  /\ fn' = NoRun
  /\ config' = <<>>
  /\ ranges' = <<>>
  /\ total_loans' = 0
  /\ timestamp' = NULL
  /\ offset' = 0
  /\ counts' = <<>>
  /\ balances' = <<>>
  /\ session' = EmptySession
  /\ staged' = <<>>
  /\ committed' = 0
  /\ before' = <<>>

\* The counters a call starts from.
CountersKeptFromLastRun(f) ==
  IF hist # <<>> /\ hist[Len(hist)].status = "success"
  THEN hist[Len(hist)].summary.counts
  ELSE [k \in Labels(f) |-> 0]

InitialCounters(f) == [k \in Labels(f) |-> 0]

\* Lines up to the page loop: parse the ranges, count the loans, reset the
\* counters, take the timestamp.  A malformed range raises before any query.
Invoke(f, c) ==
  /\ pc = "idle"
  /\ clock' = clock + 1
  /\ UNCHANGED <<loans, db, staging_results, call_vars>>
  /\ IF ParseFails(f, c)
     THEN /\ hist' = Append(hist, Finished(f, c, "error", NULL, 0,
                                           [l \in LoanIds |-> <<>>], db, db,
                                           NoSummary, staging_results))
          /\ UNCHANGED <<pc, run_vars>>
     ELSE /\ pc' = "fetch"
          /\ fn' = f
          /\ config' = c
          /\ ranges' = ParsedRanges(f, c)
          /\ total_loans' = NumLoans
          /\ timestamp' = clock
          /\ offset' = 0
          /\ counts' = InitialCounters(f)
          /\ balances' = InitialCounters(f)
          /\ session' = EmptySession
          /\ staged' = [l \in LoanIds |-> <<>>]
          /\ committed' = 0
          /\ before' = db
          /\ UNCHANGED hist

\* One fetch of the page loop and the loop over its loans; an empty page
\* ends the loop.
FetchPage ==
  /\ pc = "fetch"
  /\ \E page \in Pages(fn, offset) :
       LET res == [l \in page |-> StageLoan(fn, db[l], loans[l], ranges, timestamp)]
    In(k) == {l \in page : res[l].label = k}
       IN  IF page = {}
           THEN /\ pc' = "summary"
                /\ UNCHANGED <<counts, balances, session, staged>>
           ELSE /\ pc' = "commit"
                /\ session' = [l \in page |-> res[l].row]
                /\ counts' = [k \in Labels(fn) |-> counts[k] + Cardinality(In(k))]
                /\ balances' = [k \in Labels(fn) |->
                                  balances[k] + SumBalance(In(k), loans)]
                /\ staged' = [l \in LoanIds |->
                                IF l \in page THEN Append(staged[l], res[l].label)
                                ELSE staged[l]]
  /\ UNCHANGED <<loans, db, staging_results, clock, fn, config, ranges,
                 total_loans, timestamp, offset, committed, before, hist,
                 call_vars>>

\* db.commit() of the page, then offset += batch_size.
CommitPage ==
  /\ pc = "commit"
  /\ db' = [l \in LoanIds |-> IF l \in DOMAIN session THEN session[l] ELSE db[l]]
  /\ session' = EmptySession
  /\ offset' = offset + batch_size
  /\ committed' = committed + 1
  /\ pc' = "fetch"
  /\ UNCHANGED <<loans, staging_results, clock, fn, config, ranges, total_loans,
                 timestamp, counts, balances, staged, before, hist, call_vars>>

RECURSIVE SumCounts(_, _)
SumCounts(S, cnt) ==
  IF S = {} THEN 0
  ELSE LET k == CHOOSE x \in S : TRUE IN cnt[k] + SumCounts(S \ {k}, cnt)

\* Index of the newest StagingResult row of a type, 0 when there is none.
LatestResult(rows, type) ==
  IF \E i \in DOMAIN rows : rows[i].staging_type = type
  THEN CHOOSE i \in DOMAIN rows :
         /\ rows[i].staging_type = type
         /\ \A j \in DOMAIN rows : rows[j].staging_type = type => j <= i
  ELSE 0

\* After the loop: the async functions update the newest row of their type
\* when there is one, the sync functions add a row; then the summary is
\* returned.
WriteSummary ==
  /\ pc = "summary"
  /\ LET type == staging_type(fn)
         i == LatestResult(staging_results, type)
         rows == IF fn \in AsyncFns
                 THEN IF i = 0 THEN staging_results
                      ELSE [staging_results EXCEPT ![i] =
                              [@ EXCEPT !.status = "completed",
                                        !.timestamp = timestamp,
                                        !.total_loans = total_loans,
                                        !.counts = counts,
                                        !.balances = balances,
                                        !.config = config,
                                        !.provision_amount =
                                           ProvisionAmounts(type, balances),
                                        !.provision_rate = ProvisionRates(type)]]
                 ELSE Append(staging_results,
                             SummaryRow(type, NoLabel, NULL, NULL, counts,
                                        balances, config))
         returned == [total_loans |-> IF fn \in AsyncFns THEN total_loans
                                      ELSE SumCounts(Labels(fn), counts),
                      counts |-> counts, balances |-> balances]
     IN  /\ staging_results' = rows
         /\ hist' = Append(hist, Finished(fn, config, "success", timestamp,
                                          committed, staged, before, db,
                                          returned, rows))
  /\ Idle
  /\ UNCHANGED <<loans, db, clock, call_vars>>

\* The labels of the pages the run committed: the labels given to the loans of
\* a page still in the session are lost with the session.
StagedAndCommitted ==
  [l \in LoanIds |->
     IF l \in DOMAIN session THEN SubSeq(staged[l], 1, Len(staged[l]) - 1)
     ELSE staged[l]]

\* The run fails after the ranges were parsed: a storage failure raises
\* inside the try block and the except clause rolls the session back and
\* returns status error (async) or re-raises (sync), or the process dies.
\* Either way the uncommitted rows of the session are lost and nothing else
\* is written.
Abort ==
  /\ pc \in {"fetch", "commit", "summary"}
  /\ hist' = Append(hist, Finished(fn, config, "error", timestamp, committed,
                                   StagedAndCommitted, before, db, NoSummary,
                                   staging_results))
  /\ Idle
  /\ UNCHANGED <<loans, db, staging_results, clock, call_vars>>

\* The first staging call on the portfolio.
Start(f, c) ==
  /\ hist = <<>>
  /\ Invoke(f, c)

\* The same function is invoked again with the same configuration.
Restart ==
  /\ hist # <<>>
  /\ Len(hist) < MaxRuns
  /\ Invoke(hist[1].fn, hist[1].config)

Run ==
  \/ FetchPage
  \/ CommitPage
  \/ WriteSummary
  \/ Abort

\* One call of any of the four staging functions.
Next ==
  \/ \E f \in Fns : \E c \in Configs(f) : Start(f, c)
  \/ Run

Spec == Init /\ [][Next]_vars

\* Repeated calls of one async staging function with one configuration.
NextRerun ==
  \/ \E f \in AsyncFns : \E c \in Configs(f) : Start(f, c)
  \/ Restart
  \/ Run

SpecRerun == Init /\ [][NextRerun]_vars

(***************************************************************************)
(* Two runs of one async staging function on the same portfolio, with      *)
(* different configurations.  Nothing in the functions keeps a second call *)
(* from starting while the first is between two pages; each call has its   *)
(* own session and local variables.                                        *)
(***************************************************************************)
\* The first call.
StartFirst(f, c) ==
  /\ suspended = IdleRun
  /\ Start(f, c)

\* The executing run is at a page boundary, or no run is executing: the
\* other run gets the processor.
Switch ==
  /\ pc \in {"idle", "fetch", "summary"}
  /\ pc # "idle" \/ suspended.pc # "idle"
  /\ suspended' = [pc |-> pc, fn |-> fn, config |-> config, ranges |-> ranges,
                   total_loans |-> total_loans, timestamp |-> timestamp,
                   offset |-> offset, counts |-> counts, balances |-> balances,
                   session |-> session, staged |-> staged,
                   committed |-> committed, before |-> before]
  /\ pc' = suspended.pc
  /\ fn' = suspended.fn
  /\ config' = suspended.config
  /\ ranges' = suspended.ranges
  /\ total_loans' = suspended.total_loans
  /\ timestamp' = suspended.timestamp
  /\ offset' = suspended.offset
  /\ counts' = suspended.counts
  /\ balances' = suspended.balances
  /\ session' = suspended.session
  /\ staged' = suspended.staged
  /\ committed' = suspended.committed
  /\ before' = suspended.before
  /\ UNCHANGED <<loans, db, staging_results, clock, hist, request, response,
                 ingest_vars>>

\* The call of the first run, while it is suspended or after it returned.
FirstCall ==
  IF suspended.pc # "idle" THEN [fn |-> suspended.fn, config |-> suspended.config]
  ELSE [fn |-> hist[1].fn, config |-> hist[1].config]

\* The second call: the same function with another configuration.
StartOther(c) ==
  /\ pc = "idle"
  /\ suspended.pc # "idle" \/ Len(hist) = 1
  /\ Len(hist) + (IF suspended.pc # "idle" THEN 1 ELSE 0) = 1
  /\ c \in Configs(FirstCall.fn) \ {FirstCall.config}
  /\ Invoke(FirstCall.fn, c)

NextInterleaved ==
  \/ \E f \in AsyncFns : \E c \in Configs(f) : StartFirst(f, c)
  \/ Switch
  \/ \E c \in EclConfigs \cup LocalConfigs : StartOther(c)
  \/ Run

SpecInterleaved == Init /\ [][NextInterleaved]_vars

(***************************************************************************)
(* Calls outside the staging runs, on a store in which no run is active.   *)
(***************************************************************************)
InitCalls ==
  /\ loans = [l \in LoanIds |->
                [ndia |-> l - 1,
                 outstanding_loan_balance |-> 100000 \div l + 20 * (l - 1)]]
  /\ db = [l \in LoanIds |-> FreshRow]
  /\ staging_results = <<>>
  /\ clock = 1
  /\ pc = "idle"
  /\ fn = NoRun
  /\ config = <<>>
  /\ ranges = <<>>
  /\ total_loans = 0
  /\ timestamp = NULL
  /\ offset = 0
  /\ counts = <<>>
  /\ balances = <<>>
  /\ session = EmptySession
  /\ staged = <<>>
  /\ committed = 0
  /\ before = <<>>
  /\ hist = <<>>
  /\ request = NoRequest
  /\ response = NoResponse
  /\ suspended = IdleRun
  /\ tables = EmptyTables
  /\ ingest = NoIngest

\* The characters of the range strings a caller passes: digits, the two
\* separators, a letter and a blank.
RangeChars == {"0", "1", "3", "-", "+", "a", " "}

DaysRangeInputs == UNION {[1..k -> RangeChars] : k \in 0..MaxLen}

\* One call parse_days_range(days_range).  The empty sequence stands for ""
\* and for None: `not days_range` is true of both.
ParseDaysRange(days_range) ==
  /\ request = NoRequest
  /\ request' = [op |-> "parse_days_range", days_range |-> days_range]
  /\ response' = parse_days_range(days_range)
  /\ UNCHANGED <<loans, db, staging_results, clock, pc, run_vars, hist,
                 suspended, ingest_vars>>

\* A behaviour makes one call: S while it is still to be made, nothing after.
Arguments(S) == IF request = NoRequest THEN S ELSE {}

NextParse ==
  \E days_range \in Arguments(DaysRangeInputs) : ParseDaysRange(days_range)

SpecParse == InitCalls /\ [][NextParse]_vars

(***************************************************************************)
(* Provision aggregation: calculate_local_provision and                    *)
(* calculate_ecl_provision.  Balances are in cents, rates in percent, PD   *)
(* in hundredths, LGD and EAD% in tenths.                                  *)
(***************************************************************************)
\* Python round() to a number of decimals, on the exact quotient num / den:
\* to the nearest, ties to even.
PyRound(num, den) ==
  LET n == IF den < 0 THEN 0 - num ELSE num
      d == IF den < 0 THEN 0 - den ELSE den
      q == n \div d
      r == n % d
  IN  IF 2 * r < d THEN q
      ELSE IF 2 * r > d THEN q + 1
      ELSE IF q % 2 = 0 THEN q ELSE q + 1

\* str.lower() on the stage names a request carries.
Lower(stage) ==
  CASE stage = "Current" -> "current"
    [] stage = "OLEM" -> "olem"
    [] stage = "Substandard" -> "substandard"
    [] stage = "Doubtful" -> "doubtful"
    [] stage = "Loss" -> "loss"
    [] stage = "Stage 1" -> "stage 1"
    [] stage = "Stage 2" -> "stage 2"
    [] stage = "Stage 3" -> "stage 3"
    [] OTHER -> stage

\* LoanStageInfo, the fields the aggregation reads.
LoanStageInfo(id, stage, balance) ==
  [loan_id |-> id, stage |-> stage, outstanding_loan_balance |-> balance]

\* ids a request may name: the first and the last loan of the store and one
\* that is not stored
StagedIds == {1, NumLoans, NumLoans + 1}
\* balances a request may carry: the schema takes any float
StagedBalances == {-2520, 2520, 10000}
\* stage names a request may carry: in either case, and of the other scheme
LocalStages == {"Current", "loss", "Stage 1"}
EclStages == {"Stage 1", "stage 3", "Current"}

StagedLoans(stages) ==
  UNION {[1..n -> {LoanStageInfo(id, st, b) :
                     id \in StagedIds, st \in stages, b \in StagedBalances}] :
         n \in 0..MaxStaged}

\* The request of the specification's example: five categories with balances
\* 1000, 200, 100, 50 and 20.
ExampleStagedLoans ==
  <<LoanStageInfo(1, "Current", 100000), LoanStageInfo(1, "OLEM", 20000),
    LoanStageInfo(1, "Substandard", 10000), LoanStageInfo(1, "Doubtful", 5000),
    LoanStageInfo(1, "Loss", 2000)>>

ProvisionRateConfig(c, o, s, d, l) ==
  [current |-> c, olem |-> o, substandard |-> s, doubtful |-> d, loss |-> l]

ProvisionConfigs ==
  {ProvisionRateConfig(1, 5, 25, 50, 100), ProvisionRateConfig(2, 3, 20, 50, 100)}

\* The Portfolio rows: portfolios 1 and 2 are the caller's, 3 is another user's.
Portfolios == {1, 2, 3}
PortfolioUser(p) == IF p = 3 THEN "other_user" ELSE "current_user"

\* db.query(Portfolio).filter(Portfolio.id == portfolio_id,
\* Portfolio.user_id == current_user.id).first(): NULL when there is none.
QueryPortfolio(portfolio_id) ==
  IF PortfolioUser(portfolio_id) = "current_user" THEN portfolio_id ELSE NULL

\* Loan.portfolio_id: the stored loans are those of portfolio 1.
LoanPortfolio(loan_id) == IF loan_id \in DOMAIN loans THEN 1 ELSE NULL

\* HTTPException 404, "Portfolio not found or not authorized".
NotFound == [status |-> "HTTP 404"]

\* A request of the operation op that was not turned away.
Served(op) == request.op = op /\ response # NotFound

\* A lookup that yields the first stored loan when there is none of that id.
QueryLoanOrFirst(loan_id) == IF loan_id \in DOMAIN loans THEN loan_id ELSE 1

\* db.query(Loan).filter(Loan.id == loan_id).first(): NULL when there is none.
QueryLoan(loan_id) == IF loan_id \in DOMAIN loans THEN loan_id ELSE NULL

CategoryData(n, value, amount, rate) ==
  [num_loans |-> n, total_loan_value |-> value, provision_amount |-> amount,
   provision_rate |-> rate]

\* provision_percentage of both routes, from the provision in the unit that
\* makes the quotient the rounded percentage: 0 when the total balance is not
\* positive.
provision_percentage(total_provision, total_loan_value) ==
  IF total_loan_value > 0 THEN PyRound(total_provision, total_loan_value) ELSE 0

\* The loop of calculate_local_provision over the first n staged loans: the
\* lists and the totals of the five categories.
RECURSIVE LocalLoop(_, _)
LocalLoop(staged_loans, n) ==
  IF n = 0
  THEN [num |-> [k \in LocalLabels |-> 0], total |-> [k \in LocalLabels |-> 0]]
  ELSE LET acc == LocalLoop(staged_loans, n - 1)
           loan_with_stage == staged_loans[n]
           stage == Lower(loan_with_stage.stage)
           k == CASE stage = "current" -> "Current"
                  [] stage = "olem" -> "OLEM"
                  [] stage = "substandard" -> "Substandard"
                  [] stage = "doubtful" -> "Doubtful"
                  [] stage = "loss" -> "Loss"
                  [] OTHER -> NoLabel
       IN  IF QueryLoan(loan_with_stage.loan_id) = NULL THEN acc
           ELSE IF k = NoLabel THEN acc
           ELSE [num |-> [acc.num EXCEPT ![k] = @ + 1],
                 total |-> [acc.total EXCEPT ![k] =
                              @ + loan_with_stage.outstanding_loan_balance]]

RateOf(provision_config, k) ==
  CASE k = "Current" -> provision_config.current
    [] k = "OLEM" -> provision_config.olem
    [] k = "Substandard" -> provision_config.substandard
    [] k = "Doubtful" -> provision_config.doubtful
    [] k = "Loss" -> provision_config.loss

\* The response of calculate_local_provision.  Provisions are cents times
\* percent; amounts are rounded to cents, the percentage to one decimal.
LocalImpairmentSummary(staged_loans, provision_config) ==
  LET acc == LocalLoop(staged_loans, Len(staged_loans))
      provision == [k \in LocalLabels |-> acc.total[k] * RateOf(provision_config, k)]
      total_loan_value == SumCounts(LocalLabels, acc.total)
      total_provision == SumCounts(LocalLabels, provision)
  IN  [status |-> "ok",
       categories |->
         [k \in LocalLabels |->
            CategoryData(acc.num[k], acc.total[k], PyRound(provision[k], 100),
                         RateOf(provision_config, k))],
       total_provision |-> PyRound(total_provision, 100),
       provision_percentage |->
         provision_percentage(10 * total_provision, total_loan_value)]

CalculateLocalProvision(portfolio_id, staged_loans, provision_config) ==
  /\ pc = "idle"
  /\ hist = <<>>
  /\ request = NoRequest
  /\ request' = [op |-> "calculate_local_provision",
                 portfolio_id |-> portfolio_id, loans |-> staged_loans,
                 provision_config |-> provision_config]
  /\ response' = IF QueryPortfolio(portfolio_id) = NULL THEN NotFound
                 ELSE LocalImpairmentSummary(staged_loans, provision_config)
  /\ UNCHANGED <<loans, db, staging_results, clock, pc, run_vars, hist,
                 suspended, ingest_vars>>

\* What the risk component calculators return for the loans of the store:
\* PD in hundredths, LGD and EAD% in tenths.  The first is the example of the
\* specification: PD 0.01, LGD 0.1, EAD% 0.9.
RiskComponents ==
  { [l \in LoanIds |-> [pd |-> 1, lgd |-> 1, ead |-> 9]],
    [l \in LoanIds |-> [pd |-> (3 * l) % 11, lgd |-> (7 * l) % 11,
                        ead |-> 10 - (l % 3)]] }

calculate_probability_of_default(components, loan) == components[loan].pd
calculate_loss_given_default(components, loan) == components[loan].lgd
calculate_exposure_at_default_percentage(components, loan) == components[loan].ead

\* balance x EAD% x PD x LGD of the stored loan, in ten-thousandths of a cent
calculate_marginal_ecl(loan, ead_percentage, pd, lgd) ==
  loans[loan].outstanding_loan_balance * ead_percentage * pd * lgd

\* The loop of calculate_ecl_provision over the first n staged loans.
RECURSIVE EclLoop(_, _, _)
EclLoop(staged_loans, components, n) ==
  IF n = 0
  THEN [num |-> [k \in EclLabels |-> 0], total |-> [k \in EclLabels |-> 0],
        provision |-> [k \in EclLabels |-> 0],
        total_lgd |-> 0, total_pd |-> 0, total_ead_percentage |-> 0,
        total_loans |-> 0]
  ELSE LET acc == EclLoop(staged_loans, components, n - 1)
           loan_with_stage == staged_loans[n]
           loan == QueryLoan(loan_with_stage.loan_id)
           stage == Lower(loan_with_stage.stage)
           k == CASE stage = "stage 1" -> "Stage 1"
                  [] stage = "stage 2" -> "Stage 2"
                  [] stage = "stage 3" -> "Stage 3"
                  [] OTHER -> NoLabel
           lgd == calculate_loss_given_default(components, loan)
           pd == calculate_probability_of_default(components, loan)
           ead_percentage == calculate_exposure_at_default_percentage(components, loan)
           ecl == calculate_marginal_ecl(loan, ead_percentage, pd, lgd)
       IN  IF loan = NULL THEN acc
           ELSE IF k = NoLabel
           THEN [acc EXCEPT !.total_loans = @ + 1]
           ELSE [num |-> [acc.num EXCEPT ![k] = @ + 1],
                 total |-> [acc.total EXCEPT ![k] =
                              @ + loan_with_stage.outstanding_loan_balance],
                 provision |-> [acc.provision EXCEPT ![k] = @ + ecl],
                 total_lgd |-> acc.total_lgd + lgd,
                 total_pd |-> acc.total_pd + pd,
                 total_ead_percentage |-> acc.total_ead_percentage + ead_percentage,
                 total_loans |-> acc.total_loans + 1]

\* A mean to four decimals, of a total in units of 1 / unit; 0 when no loan
\* was counted.
Average(total, unit, counted) ==
  IF counted > 0 THEN PyRound((10000 \div unit) * total, counted) ELSE 0

\* The effective provision rate of a stage, to four decimals.
stage_rate(stage_provision, stage_total) ==
  IF stage_total > 0 THEN PyRound(stage_provision, stage_total) ELSE 0

\* The response of calculate_ecl_provision.
ECLSummary(staged_loans, components) ==
  LET acc == EclLoop(staged_loans, components, Len(staged_loans))
      total_loan_value == SumCounts(EclLabels, acc.total)
      total_provision == SumCounts(EclLabels, acc.provision)
  IN  [status |-> "ok",
       categories |->
         [k \in EclLabels |->
            CategoryData(acc.num[k], acc.total[k], PyRound(acc.provision[k], 10000),
                         stage_rate(acc.provision[k], acc.total[k]))],
       avg_pd |-> Average(acc.total_pd, 100, acc.total_loans),
       avg_lgd |-> Average(acc.total_lgd, 10, acc.total_loans),
       avg_ead |-> Average(acc.total_ead_percentage, 10, acc.total_loans),
       total_provision |-> PyRound(total_provision, 10000),
       provision_percentage |->
         provision_percentage(total_provision, total_loan_value)]

CalculateEclProvision(portfolio_id, staged_loans, components) ==
  /\ pc = "idle"
  /\ hist = <<>>
  /\ request = NoRequest
  /\ request' = [op |-> "calculate_ecl_provision",
                 portfolio_id |-> portfolio_id, loans |-> staged_loans,
                 components |-> components]
  /\ response' = IF QueryPortfolio(portfolio_id) = NULL THEN NotFound
                 ELSE ECLSummary(staged_loans, components)
  /\ UNCHANGED <<loans, db, staging_results, clock, pc, run_vars, hist,
                 suspended, ingest_vars>>

\* A local impairment staging run on the same store.
StartLocal(f, c) ==
  /\ request = NoRequest
  /\ Start(f, c)

NextProvision ==
  \/ \E provision_config \in Arguments(ProvisionConfigs) :
        \E staged_loans \in StagedLoans(LocalStages) \cup {ExampleStagedLoans} :
           \E portfolio_id \in Portfolios :
              CalculateLocalProvision(portfolio_id, staged_loans, provision_config)
  \/ \E components \in Arguments(RiskComponents) :
        \E staged_loans \in StagedLoans(EclStages) :
           \E portfolio_id \in Portfolios :
              CalculateEclProvision(portfolio_id, staged_loans, components)
  \/ \E f \in LocalFns : \E c \in LocalConfigs : StartLocal(f, c)
  \/ Run

SpecProvision == InitCalls /\ [][NextProvision]_vars

(***************************************************************************)
(* The classification the specification describes.                         *)
(***************************************************************************)
Contains(r, d) == r.min_days <= d /\ (r.max_days = None \/ d < r.max_days)

\* Labels from least to most severe; range i of a configuration is label i's.
SeverityOrder(f) ==
  IF f \in EclFns THEN <<"Stage 1", "Stage 2", "Stage 3">>
  ELSE <<"Current", "OLEM", "Substandard", "Doubtful", "Loss">>

\* ECL: most severe first.  Local impairment: least severe first.
EvaluationOrder(f) == IF f \in EclFns THEN <<3, 2, 1>> ELSE <<1, 2, 3, 4, 5>>

MostSevere(f) == IF f \in EclFns THEN "Stage 3" ELSE "Loss"

Containing(f, d, rg) == {i \in 1..Len(rg) : Contains(rg[i], d)}

FirstContaining(f, d, rg) ==
  LET ord == EvaluationOrder(f)
      hits == {k \in 1..Len(ord) : Contains(rg[ord[k]], d)}
  IN  IF hits = {} THEN NoLabel
      ELSE SeverityOrder(f)[ord[CHOOSE k \in hits : \A j \in hits : k <= j]]

Last(seq) == seq[Len(seq)]

\* The loans of the pages an async run has committed.
CommittedLoans(h) == {l \in LoanIds : l <= h.committed * batch_size}

(***************************************************************************)
(* Claims.                                                                 *)
(***************************************************************************)
\* C1: in every staging function a loan with days-past-due d >= 0 is given
\* the first category, in the scheme's evaluation order, whose parsed interval
\* contains d.
C1_FirstContainingCategory ==
  pc # "idle" =>
    \A l \in LoanIds : \A i \in DOMAIN staged[l] :
       (loans[l].ndia >= 0 /\ FirstContaining(fn, loans[l].ndia, ranges) # NoLabel)
         => staged[l][i] = FirstContaining(fn, loans[l].ndia, ranges)

\* C2: a loan whose days-past-due lies in none of the configured intervals is
\* given the most severe category, Stage 3 or Loss.
C2_FallbackMostSevere ==
  pc # "idle" =>
    \A l \in LoanIds : \A i \in DOMAIN staged[l] :
       (loans[l].ndia >= 0 /\ Containing(fn, loans[l].ndia, ranges) = {})
         => staged[l][i] = MostSevere(fn)

\* C3: classification is total: every loan with days-past-due d >= 0 that the
\* loop takes is given exactly one label of the scheme's label set.
C3_ClassificationTotal ==
  pc # "idle" =>
    \A l \in LoanIds : \A i \in DOMAIN staged[l] :
       loans[l].ndia >= 0 => staged[l][i] \in Labels(fn)

\* C4: when the intervals of several categories contain a loan's
\* days-past-due, every ECL path gives the most severe of them (Stage 3 is
\* checked before Stage 2 before Stage 1) and every local impairment path the
\* least severe (Current is checked first).
C4_SeverityOrderOnOverlap ==
  pc # "idle" =>
    \A l \in LoanIds : \A i \in DOMAIN staged[l] :
       LET hits == Containing(fn, loans[l].ndia, ranges)
       IN  (loans[l].ndia >= 0 /\ Cardinality(hits) >= 2)
             => staged[l][i] =
                  SeverityOrder(fn)[IF fn \in EclFns
                                    THEN CHOOSE k \in hits : \A j \in hits : j <= k
                                    ELSE CHOOSE k \in hits : \A j \in hits : k <= j]

\* C5: after a run that returned success every loan of the portfolio carries
\* a label of the scheme's label set that this run assigned, and is counted in
\* exactly one category of the summary.
C5_EveryLoanLabelledAndCounted ==
  \A n \in DOMAIN hist :
     hist[n].status = "success" =>
       /\ \A l \in LoanIds :
             /\ hist[n].staged[l] # <<>>
             /\ Last(hist[n].staged[l]) \in Labels(hist[n].fn)
             /\ StoredLabel(hist[n].fn, hist[n].after[l]) = Last(hist[n].staged[l])
       /\ SumCounts(Labels(hist[n].fn), hist[n].summary.counts) = NumLoans

\* C6: one staging run, async or sync, processes every loan of a static
\* population exactly once.
C6_EveryLoanExactlyOnce ==
  \A n \in DOMAIN hist :
     hist[n].status = "success" =>
       \A l \in LoanIds : Len(hist[n].staged[l]) = 1

\* C7: when an async run fails after page k was committed, the loans of pages
\* 1..k are stored with the label and the timestamp of this run and every
\* later loan is stored exactly as before the run.
C7_CrashLeavesCommittedPagesStaged ==
  \A n \in DOMAIN hist :
     (hist[n].status = "error" /\ hist[n].fn \in AsyncFns) =>
       /\ \A l \in CommittedLoans(hist[n]) :
             /\ hist[n].after[l].last_staged_at = hist[n].timestamp
             /\ StoredLabel(hist[n].fn, hist[n].after[l]) \in Labels(hist[n].fn)
             /\ StoredLabel(hist[n].fn, hist[n].after[l]) = hist[n].staged[l][1]
       /\ \A l \in LoanIds \ CommittedLoans(hist[n]) :
             hist[n].after[l] = hist[n].before[l]

\* C8: when a run fails in the middle, the rows of the committed pages are
\* kept, the rows of the uncommitted page are as before the run, and the
\* newest stored summary of the scheme has status error.
C8_FailureRecordsErrorSummary ==
  \A n \in DOMAIN hist :
     (hist[n].status = "error" /\ hist[n].timestamp # NULL) =>
       LET i == LatestResult(hist[n].results, staging_type(hist[n].fn))
       IN  i # 0 /\ hist[n].results[i].status = "error"

\* The label columns of the stored rows, as function f writes them.
StoredLabels(f, rows) == [l \in LoanIds |-> StoredLabel(f, rows[l])]

\* What one call of async function f with configuration c leaves and returns
\* when it runs to the end over the stored rows: every loan is taken once.
Uninterrupted(f, c, rows, ts) ==
  LET rg == ParsedRanges(f, c)
      res == [l \in LoanIds |-> StageLoan(f, rows[l], loans[l], rg, ts)]
      In(k) == {l \in LoanIds : res[l].label = k}
  IN  [after |-> [l \in LoanIds |-> res[l].row],
       summary |-> [total_loans |-> NumLoans,
                    counts |-> [k \in Labels(f) |-> Cardinality(In(k))],
                    balances |-> [k \in Labels(f) |-> SumBalance(In(k), loans)]]]

\* Every async run that returned success left and returned what Uninterrupted
\* gives for the rows it started from.
UninterruptedIsTheRun ==
  \A n \in DOMAIN hist :
     (hist[n].status = "success" /\ hist[n].fn \in AsyncFns) =>
       LET u == Uninterrupted(hist[n].fn, hist[n].config, hist[n].before,
                              hist[n].timestamp)
       IN  hist[n].after = u.after /\ hist[n].summary = u.summary

\* C9: a run of an async staging function over a two-page population fails
\* after committing page 1; a second run from scratch with the same
\* configuration ends with the per-loan labels and the summary counts and
\* balances of a single uninterrupted run over the original rows.
C9_RerunAfterFailureMatchesUninterrupted ==
  (/\ pc = "idle"
   /\ Len(hist) = 2
   /\ hist[1].status = "error"
   /\ hist[1].committed = 1
   /\ hist[2].status = "success")
    => LET u == Uninterrupted(hist[1].fn, hist[1].config, hist[1].before,
                              hist[1].timestamp)
       IN  /\ StoredLabels(hist[2].fn, hist[2].after)
                = StoredLabels(hist[1].fn, u.after)
           /\ hist[2].summary = u.summary

C9_Witness ==
  /\ Len(hist) >= 2
  /\ hist[1].status = "error"
  /\ hist[1].committed = 1
  /\ hist[2].status = "success"
  /\ hist[2].committed = 2
  /\ StoredLabels(hist[2].fn, hist[2].after) # StoredLabels(hist[1].fn, hist[1].before)
  /\ StoredLabels(hist[1].fn, hist[1].after) # StoredLabels(hist[1].fn, hist[1].before)

\* C10: two runs in sequence of one async staging function with one
\* configuration: every loan has the same label after the second run as after
\* the first, and the second summary has the total, counts and balances of
\* the first, whatever the labels before the first run.
C10_StagingIdempotent ==
  (/\ pc = "idle"
   /\ Len(hist) = 2
   /\ hist[1].status = "success"
   /\ hist[2].status = "success")
    => /\ StoredLabels(hist[2].fn, hist[2].after)
            = StoredLabels(hist[1].fn, hist[1].after)
       /\ hist[2].summary = hist[1].summary

C10_Witness ==
  /\ Len(hist) >= 2
  /\ hist[1].status = "success"
  /\ hist[2].status = "success"
  /\ hist[2].timestamp # hist[1].timestamp
  /\ \E l \in LoanIds :
        /\ StoredLabel(hist[1].fn, hist[1].before[l]) # NoLabel
        /\ StoredLabel(hist[1].fn, hist[1].after[l])
             # StoredLabel(hist[1].fn, hist[1].before[l])
  /\ \E l \in LoanIds : hist[1].staged[l] = <<NoLabel>>

(***************************************************************************)
(* Claims about parse_days_range.                                          *)
(***************************************************************************)
\* C15: parse_days_range maps the empty or absent string to (0, unbounded),
\* "N+" to (N, unbounded) and "A-B" to (A, B), for non-negative integers N, A, B.
C15_ParseMapsRanges ==
  request.op = "parse_days_range" =>
    /\ request.days_range = <<>> => response = Parsed(0, None)
    /\ \A N \in 0..MaxDays :
          request.days_range = Numeral(N) \o <<"+">> => response = Parsed(N, None)
    /\ \A A \in 0..MaxDays : \A B \in 0..MaxDays :
          request.days_range = Numeral(A) \o <<"-">> \o Numeral(B)
            => response = Parsed(A, B)

C15_Witness ==
  /\ request.op = "parse_days_range"
  /\ request.days_range = <<"3", "-", "1", "3">>
  /\ response.err = "none"
  /\ response.min_days = 3
  /\ response.max_days = 13

\* C16: for every range string outside the grammar parse_days_range fails, and
\* the error carries the complete offending string.
C16_MalformedRangeRejectedWithString ==
  (request.op = "parse_days_range" /\ ~WellFormedRange(request.days_range)) =>
    /\ response.err # "none"
    /\ response.detail = request.days_range

(***************************************************************************)
(* Claims about the run timestamp, the stored summaries and failures.      *)
(***************************************************************************)
\* The loans a finished run gave a label.
Touched(h) ==
  {l \in LoanIds : \E i \in 1..Len(h.staged[l]) : h.staged[l][i] # NoLabel}

\* C11: every loan a successful staging run, async or sync, has labelled is
\* stored with the run's timestamp as its last-staged time, and the stored
\* summary of the scheme carries that same timestamp.
C11_OneRunTimestamp ==
  \A n \in DOMAIN hist :
     hist[n].status = "success" =>
       /\ \A l \in Touched(hist[n]) :
             hist[n].after[l].last_staged_at = hist[n].timestamp
       /\ LET i == LatestResult(hist[n].results, staging_type(hist[n].fn))
          IN  i # 0 => hist[n].results[i].timestamp = hist[n].timestamp

\* C12: a staging run that ends with success keeps every StagingResult row
\* that was stored as it was and adds one row, the newest of its scheme,
\* holding the summary of this run.
C12_SummarySupersededNotOverwritten ==
  [][(Len(hist') > Len(hist) /\ Last(hist').status = "success") =>
       /\ Len(staging_results') = Len(staging_results) + 1
       /\ \A i \in DOMAIN staging_results : staging_results'[i] = staging_results[i]
       /\ Last(staging_results').staging_type = staging_type(Last(hist').fn)
       /\ Last(staging_results').counts = Last(hist').summary.counts
       /\ Last(staging_results').balances = Last(hist').summary.balances]_vars

\* C13: a staging run that returns success has counted every loan of the
\* portfolio in exactly one category of the summary it returns.
C13_NoPartialSuccess ==
  \A n \in DOMAIN hist :
     hist[n].status = "success" =>
       /\ hist[n].summary.total_loans = NumLoans
       /\ SumCounts(Labels(hist[n].fn), hist[n].summary.counts) = NumLoans
       /\ \A l \in LoanIds :
             Cardinality({i \in 1..Len(hist[n].staged[l]) :
                            hist[n].staged[l][i] \in Labels(hist[n].fn)}) = 1

MalformedConfig(f, c) ==
  \E i \in 1..Len(RangeStrings(f, c)) : ~WellFormedRange(RangeStrings(f, c)[i])

\* C14: a staging call whose configuration has a malformed range string ends
\* in an error, and no step of it changes a stored loan row or a stored
\* summary.
C14_MalformedRangeFailsBeforeWrite ==
  [][/\ (fn # NoRun /\ MalformedConfig(fn, config))
          => (db' = db /\ staging_results' = staging_results)
     /\ (Len(hist') > Len(hist)
          /\ MalformedConfig(Last(hist').fn, Last(hist').config))
          => /\ Last(hist').status = "error"
             /\ db' = Last(hist').before
             /\ staging_results' = staging_results]_vars

\* A call that parse_days_range stops has written nothing when it returns.
ParseFailureWritesNothing ==
  [][(Len(hist') > Len(hist)
      /\ ParseFails(Last(hist').fn, Last(hist').config))
       => /\ Last(hist').status = "error"
          /\ Last(hist').committed = 0
          /\ db' = db
          /\ staging_results' = staging_results]_vars


(***************************************************************************)
(* The route stage_loans_local_impairment: it classifies the loans of the  *)
(* portfolio and returns them, and stores nothing.                         *)
(***************************************************************************)
\* The range parser of the routes, app.calculators.local_impairment: the
\* strings of the grammar parse as in parse_days_range, any other fails.
route_parse_days_range(days_range) ==
  IF WellFormedRange(days_range) THEN parse_days_range(days_range)
  ELSE ParseError("format", days_range)

\* app.calculators.ecl.is_in_range: min <= d and (d < max or max unbounded)
is_in_range(ndia, range) ==
  /\ range.min_days <= ndia
  /\ (range.max_days = None \/ ndia < range.max_days)

\* Python int() of the quotient num / den, den > 0: towards zero.
IntOfQuotient(num, den) ==
  IF num >= 0 THEN num \div den ELSE 0 - ((0 - num) \div den)

\* A loan as the route reads it.
RouteLoan(ndia, arrears, installment) ==
  [ndia |-> ndia, outstanding_loan_balance |-> 10000,
   accumulated_arrears |-> arrears, monthly_installment |-> installment]

\* Loans with a days-past-due value, and loans without one whose arrears and
\* installment are missing, zero, negative or give 1 and 3 days.
RouteLoans ==
  {RouteLoan(d, NULL, NULL) : d \in 0..MaxNdia}
    \cup {RouteLoan(NULL, a, NULL) : a \in {NULL, 100}}
    \cup {RouteLoan(NULL, a, 3000) : a \in {NULL, 0, 100, 300, -300}}
    \cup {RouteLoan(NULL, 100, 0)}

InitRoute ==
  /\ loans \in [LoanIds -> RouteLoans]
  /\ db = [l \in LoanIds |-> FreshRow]
  /\ staging_results = <<>>
  /\ clock = 1
  /\ pc = "idle"
  /\ fn = NoRun
  /\ config = <<>>
  /\ ranges = <<>>
  /\ total_loans = 0
  /\ timestamp = NULL
  /\ offset = 0
  /\ counts = <<>>
  /\ balances = <<>>
  /\ session = EmptySession
  /\ staged = <<>>
  /\ committed = 0
  /\ before = <<>>
  /\ hist = <<>>
  /\ request = NoRequest
  /\ response = NoResponse
  /\ suspended = IdleRun
  /\ tables = EmptyTables
  /\ ingest = NoIngest

\* portfolio.py 526-538: the days-past-due the route classifies a loan by
route_ndia(loan) ==
  IF loan.ndia = NULL
  THEN IF /\ loan.accumulated_arrears \notin {NULL, 0}
          /\ loan.monthly_installment \notin {NULL, 0}
          /\ loan.monthly_installment > 0
       THEN IntOfQuotient(loan.accumulated_arrears * 30, loan.monthly_installment)
       ELSE 0
  ELSE loan.ndia

\* portfolio.py 540-550: the if/elif chain; it has no else, NoLabel stands for
\* no branch taken
route_category(ndia, rg) ==
  IF is_in_range(ndia, rg[1]) THEN "Current"
  ELSE IF is_in_range(ndia, rg[2]) THEN "OLEM"
  ELSE IF is_in_range(ndia, rg[3]) THEN "Substandard"
  ELSE IF is_in_range(ndia, rg[4]) THEN "Doubtful"
  ELSE IF is_in_range(ndia, rg[5]) THEN "Loss"
  ELSE NoLabel

\* The orders in which the query without order_by may return the loans.
QueryOrders ==
  {o \in [1..NumLoans -> LoanIds] : \A i, j \in 1..NumLoans : o[i] = o[j] => i = j}

\* The loop of the route over the first n loans of the query result.  stage
\* is the local variable of that name: it keeps the value of the iteration
\* before when no branch assigns it, and is unbound (NoLabel) before the first
\* assignment.  An exception ends the loop.
RECURSIVE RouteLoop(_, _, _)
RouteLoop(order, rg, n) ==
  IF n = 0 THEN [err |-> "none", stage |-> NoLabel, staged_loans |-> <<>>]
  ELSE LET acc == RouteLoop(order, rg, n - 1)
           loan == loans[order[n]]
           category == route_category(route_ndia(loan), rg)
           stage == IF category = NoLabel THEN acc.stage ELSE category
       IN  IF acc.err # "none" THEN acc
           ELSE IF loan.ndia = NULL
           THEN [acc EXCEPT !.err = "TypeError", !.stage = stage]
           ELSE IF stage = NoLabel
           THEN [acc EXCEPT !.err = "UnboundLocalError"]
           ELSE [err |-> "none", stage |-> stage,
                 staged_loans |->
                   Append(acc.staged_loans,
                          [loan_id |-> order[n], stage |-> stage,
                           outstanding_loan_balance |-> loan.outstanding_loan_balance,
                           ndia |-> loan.ndia])]

\* The response of the route: HTTP 400 for a range that does not parse, the
\* exception the loop raised, or the staged loans.
StagingResponse(order, c) ==
  LET rs == <<c.current, c.olem, c.substandard, c.doubtful,
              c.loss>>
      rg == [i \in 1..5 |-> route_parse_days_range(rs[i])]
      out == RouteLoop(order, rg, NumLoans)
  IN  IF \E i \in 1..5 : rg[i].err # "none"
      THEN [status |-> "HTTP 400", loans |-> <<>>]
      ELSE IF out.err # "none" THEN [status |-> out.err, loans |-> <<>>]
      ELSE [status |-> "ok", loans |-> out.staged_loans]

stage_loans_local_impairment(order, c) ==
  /\ pc = "idle"
  /\ hist = <<>>
  /\ request = NoRequest
  /\ request' = [op |-> "stage_loans_local_impairment", order |-> order,
                 config |-> c]
  /\ response' = StagingResponse(order, c)
  /\ UNCHANGED <<loans, db, staging_results, clock, pc, run_vars, hist,
                 suspended, ingest_vars>>

NextRoute ==
  \E c \in Arguments(LocalConfigs) : \E order \in QueryOrders :
     stage_loans_local_impairment(order, c)

SpecRoute == InitRoute /\ [][NextRoute]_vars

(***************************************************************************)
(* The route ingest_portfolio_data and the three file processors.  A row   *)
(* of a table is <<portfolio_id, key>>, the key being the loan number, the *)
(* guarantor or the employee id.                                           *)
(***************************************************************************)
Files == {"loan_details", "loan_guarantee_data", "loan_collateral_data"}

\* An upload: absent, or a file that pandas cannot read as the expected
\* sheet, or a sheet with a set of rows.
NoFile == [provided |-> FALSE, readable |-> FALSE, rows |-> {}]
Unreadable == [provided |-> TRUE, readable |-> FALSE, rows |-> {}]
UploadFile(rows) == [provided |-> TRUE, readable |-> TRUE, rows |-> rows]
UploadFiles ==
  {NoFile, Unreadable} \cup {UploadFile(rows) : rows \in SUBSET (1..MaxRows)}

\* The dictionaries a processor returns; NoResult stands for a missing key.
NoResult == [status |-> "none"]
ErrorResult == [status |-> "error"]
SuccessResult(processed, skipped) ==
  [status |-> "success", rows_processed |-> processed, rows_skipped |-> skipped]

\* The keys of the rows of portfolio_id in a table, as a query of the session
\* sees them: the committed rows and the ones inserted in this transaction.
ExistingKeys(table, portfolio_id) ==
  {row[2] : row \in {r \in tables[table] \cup ingest.pending[table] :
                       r[1] = portfolio_id}}

\* The rows the processor inserts for a readable file.
NewRows(file, table, portfolio_id) ==
  {<<portfolio_id, key>> : key \in file.rows \ ExistingKeys(table, portfolio_id)}

\* process_loan_details: any exception becomes a result of status error.
process_loan_details(file, portfolio_id) ==
  IF ~file.readable THEN [result |-> ErrorResult, added |-> {}]
  ELSE [result |-> SuccessResult(Cardinality(file.rows), 0),
        added |-> NewRows(file, "Loan", portfolio_id)]

\* process_loan_guarantees
process_loan_guarantees(file, portfolio_id) ==
  IF ~file.readable THEN [result |-> ErrorResult, added |-> {}]
  ELSE LET new_guarantees == NewRows(file, "Guarantee", portfolio_id)
       IN  [result |-> SuccessResult(Cardinality(file.rows),
                         Cardinality(file.rows) - Cardinality(new_guarantees)),
            added |-> new_guarantees]

\* process_loan_collateral
process_loan_collateral(file, portfolio_id) ==
  IF ~file.readable THEN [result |-> ErrorResult, added |-> {}]
  ELSE LET new_clients == NewRows(file, "Client", portfolio_id)
       IN  [result |-> SuccessResult(Cardinality(file.rows),
                         Cardinality(file.rows) - Cardinality(new_clients)),
            added |-> new_clients]

\* Tables a prior ingestion may have left: none, or one loan of portfolio 1.
InitIngest ==
  /\ loans = [l \in LoanIds |->
                [ndia |-> l - 1, outstanding_loan_balance |-> 10000]]
  /\ db = [l \in LoanIds |-> FreshRow]
  /\ staging_results = <<>>
  /\ clock = 1
  /\ pc = "idle"
  /\ fn = NoRun
  /\ config = <<>>
  /\ ranges = <<>>
  /\ total_loans = 0
  /\ timestamp = NULL
  /\ offset = 0
  /\ counts = <<>>
  /\ balances = <<>>
  /\ session = EmptySession
  /\ staged = <<>>
  /\ committed = 0
  /\ before = <<>>
  /\ hist = <<>>
  /\ request = NoRequest
  /\ response = NoResponse
  /\ suspended = IdleRun
  /\ tables \in {EmptyTables, [EmptyTables EXCEPT !.Loan = {<<1, 1>>}]}
  /\ ingest = NoIngest

not_ingest_vars ==
  <<loans, db, staging_results, clock, pc, run_vars, hist, suspended>>

\* The route up to the first file: 400 without a file, 404 for a portfolio
\* that is not the caller's.
ingest_portfolio_data(portfolio_id, files) ==
  /\ request = NoRequest
  /\ ingest.pc = "idle"
  /\ request' = [op |-> "ingest_portfolio_data", portfolio_id |-> portfolio_id,
                 files |-> files]
  /\ IF \A f \in Files : ~files[f].provided
     THEN /\ response' = [status |-> "HTTP 400"]
          /\ ingest' = [ingest EXCEPT !.pc = "done", !.before = tables]
     ELSE IF QueryPortfolio(portfolio_id) = NULL
     THEN /\ response' = NotFound
          /\ ingest' = [ingest EXCEPT !.pc = "done", !.before = tables]
     ELSE /\ response' = response
          /\ ingest' = [pc |-> "loan_details",
                        results |-> [f \in Files |-> NoResult],
                        pending |-> EmptyTables, before |-> tables]
  /\ UNCHANGED <<tables, not_ingest_vars>>

\* One file of the request: skipped when absent, else handed to its
\* processor, whose inserts stay in the transaction of the session.
ProcessFile(name, table, processed, next) ==
  /\ ingest.pc = name
  /\ IF ~request.files[name].provided
     THEN ingest' = [ingest EXCEPT !.pc = next]
     ELSE ingest' = [ingest EXCEPT
                       !.pc = next,
                       !.results[name] = processed.result,
                       !.pending[table] = @ \cup processed.added]
  /\ UNCHANGED <<tables, request, response, not_ingest_vars>>

ProcessLoanDetails ==
  ProcessFile("loan_details", "Loan",
              process_loan_details(request.files["loan_details"],
                                   request.portfolio_id),
              "loan_guarantee_data")

ProcessLoanGuarantees ==
  ProcessFile("loan_guarantee_data", "Guarantee",
              process_loan_guarantees(request.files["loan_guarantee_data"],
                                      request.portfolio_id),
              "loan_collateral_data")

ProcessLoanCollateral ==
  ProcessFile("loan_collateral_data", "Client",
              process_loan_collateral(request.files["loan_collateral_data"],
                                      request.portfolio_id),
              "commit")

\* db.commit() and the return of the results.
CommitIngest ==
  /\ ingest.pc = "commit"
  /\ tables' = [t \in DOMAIN tables |-> tables[t] \cup ingest.pending[t]]
  /\ ingest' = [ingest EXCEPT !.pc = "done", !.pending = EmptyTables]
  /\ response' = [status |-> "none", portfolio_id |-> request.portfolio_id,
                  results |-> ingest.results]
  /\ UNCHANGED <<request, not_ingest_vars>>

\* db.commit() raises: db.rollback() and the error response.
RollbackIngest ==
  /\ ingest.pc = "commit"
  /\ ingest' = [ingest EXCEPT !.pc = "done", !.pending = EmptyTables]
  /\ response' = [status |-> "error", portfolio_id |-> request.portfolio_id,
                  results |-> [error |-> "Exception"]]
  /\ UNCHANGED <<tables, request, not_ingest_vars>>

NextIngest ==
  \/ \E portfolio_id \in Arguments(Portfolios) :
        \E files \in [Files -> UploadFiles] :
           ingest_portfolio_data(portfolio_id, files)
  \/ ProcessLoanDetails
  \/ ProcessLoanGuarantees
  \/ ProcessLoanCollateral
  \/ CommitIngest
  \/ RollbackIngest

SpecIngest == InitIngest /\ [][NextIngest]_vars

(***************************************************************************)
(* Claims about the provision aggregation.                                 *)
(***************************************************************************)
\* the scheme of the specification's example, in percent
ExampleScheme == ProvisionRateConfig(1, 5, 25, 50, 100)

LocalRows == {i \in 1..Len(staging_results) :
                staging_results[i].staging_type = "local_impairment"}

\* C17: the local impairment provision of a category is its balance times the
\* rate of the scheme and the total provision is the sum over the five
\* categories, in the response of calculate_local_provision (amounts rounded
\* to two decimals there) and in the summaries the local impairment staging
\* functions store (whose scheme is 1%, 5%, 25%, 50%, 100%).
C17_LocalProvisionIsBalanceTimesRate ==
  /\ Served("calculate_local_provision") =>
        LET cat == response.categories
            product == [k \in LocalLabels |->
                          cat[k].total_loan_value
                            * RateOf(request.provision_config, k)]
        IN  /\ \A k \in LocalLabels :
                  /\ cat[k].provision_rate = RateOf(request.provision_config, k)
                  /\ cat[k].provision_amount = PyRound(product[k], 100)
            /\ response.total_provision
                  = PyRound(SumCounts(LocalLabels, product), 100)
  /\ \A i \in LocalRows :
        \A k \in LocalLabels :
           /\ staging_results[i].provision_rate[k] = RateOf(ExampleScheme, k)
           /\ staging_results[i].provision_amount[k]
                 = staging_results[i].balances[k] * RateOf(ExampleScheme, k)

\* The example of the specification: balances 1000, 200, 100, 50, 20 give the
\* provisions 10, 10, 25, 25, 20 and the total 90.
C17_Witness ==
  /\ Served("calculate_local_provision")
  /\ request.loans = ExampleStagedLoans
  /\ request.provision_config = ExampleScheme
  /\ response.categories["Current"].provision_amount = 1000
  /\ response.categories["OLEM"].provision_amount = 1000
  /\ response.categories["Substandard"].provision_amount = 2500
  /\ response.categories["Doubtful"].provision_amount = 2500
  /\ response.categories["Loss"].provision_amount = 2000
  /\ response.total_provision = 9000

\* A stored local impairment summary with a provision in two categories.
StoredProvisionReached ==
  \E i \in LocalRows :
     /\ staging_results[i].provision_amount["Current"] > 0
     /\ staging_results[i].provision_amount["OLEM"] > 0

\* The category the aggregation of the request puts a stage name in, NoLabel
\* when it has none for it.
CategoryOf(op, stage) ==
  LET labs == IF op = "calculate_local_provision" THEN LocalLabels ELSE EclLabels
  IN  IF \E k \in labs : Lower(k) = Lower(stage)
      THEN CHOOSE k \in labs : Lower(k) = Lower(stage)
      ELSE NoLabel

\* The staged loans of the request found in the store and staged into k.
StagedInto(k) ==
  {i \in 1..Len(request.loans) :
     /\ request.loans[i].loan_id \in DOMAIN loans
     /\ CategoryOf(request.op, request.loans[i].stage) = k}

\* The provision on one staged loan of the request: its balance times the
\* rate of its category, or its marginal ECL.
ProvisionOn(i) ==
  LET e == request.loans[i]
  IN  IF request.op = "calculate_local_provision"
      THEN e.outstanding_loan_balance
             * RateOf(request.provision_config, CategoryOf(request.op, e.stage))
      ELSE loans[e.loan_id].outstanding_loan_balance
             * request.components[e.loan_id].ead
             * request.components[e.loan_id].pd
             * request.components[e.loan_id].lgd

BalanceInto(k) ==
  SumCounts(StagedInto(k),
            [i \in StagedInto(k) |-> request.loans[i].outstanding_loan_balance])
ProvisionInto(k) ==
  SumCounts(StagedInto(k), [i \in StagedInto(k) |-> ProvisionOn(i)])

RequestLabels ==
  IF request.op = "calculate_local_provision" THEN LocalLabels ELSE EclLabels
TotalBalance == SumCounts(RequestLabels, [k \in RequestLabels |-> BalanceInto(k)])
TotalProvision == SumCounts(RequestLabels, [k \in RequestLabels |-> ProvisionInto(k)])

\* totalProvision / totalBalance x 100 rounded as the response rounds it: to
\* one decimal for local impairment, to two for ECL.
Percentage ==
  IF request.op = "calculate_local_provision"
  THEN PyRound(10 * TotalProvision, TotalBalance)
  ELSE PyRound(TotalProvision, TotalBalance)

ProvisionRequest ==
  /\ request.op \in {"calculate_local_provision", "calculate_ecl_provision"}
  /\ response # NotFound

\* C18: both provision aggregations return provisionPercentage =
\* totalProvision / totalBalance x 100 when the total balance is not zero and
\* 0 when it is zero, and never fail on the division.
C18_PercentageOfTotalBalance ==
  ProvisionRequest =>
    /\ response.status = "ok"
    /\ response.provision_percentage
          = IF TotalBalance # 0 THEN Percentage ELSE 0

\* The same with the total balance positive, zero or missing.
PercentageOfPositiveBalance ==
  ProvisionRequest =>
    /\ response.status = "ok"
    /\ response.provision_percentage
          = IF TotalBalance > 0 THEN Percentage ELSE 0

\* The request without the staged loans that are not in the store.
RECURSIVE Found(_)
Found(staged_loans) ==
  IF staged_loans = <<>> THEN <<>>
  ELSE LET rest == Found(Tail(staged_loans))
       IN  IF Head(staged_loans).loan_id \in DOMAIN loans
           THEN <<Head(staged_loans)>> \o rest
           ELSE rest

\* C19: a staged loan whose id is not in the store is skipped by both
\* aggregations: the response is the one for the request without it, in its
\* category counts, balances and provisions, in the totals and in the
\* averages of PD, LGD and EAD.
C19_UnresolvedLoanSkipped ==
  /\ Served("calculate_local_provision") =>
        response = LocalImpairmentSummary(Found(request.loans),
                                          request.provision_config)
  /\ Served("calculate_ecl_provision") =>
        response = ECLSummary(Found(request.loans), request.components)

\* An ECL request with a loan of the store and one that is not in it; the
\* average is over the one loan.
C19_Witness ==
  /\ Served("calculate_ecl_provision")
  /\ Len(request.loans) = 2
  /\ request.loans[1].loan_id \notin DOMAIN loans
  /\ request.loans[2].loan_id \in DOMAIN loans
  /\ request.loans[2].stage = "Stage 1"
  /\ response.categories["Stage 1"].num_loans = 1
  /\ response.avg_pd = 100 * request.components[request.loans[2].loan_id].pd
  /\ response.avg_pd > 0

\* C20: in the ECL aggregation the provision of a stage is the sum of the
\* marginal ECL (balance x EAD% x PD x LGD) of exactly the loans staged into
\* it, and its effective rate is that sum divided by the summed balance of
\* the stage, 0 when that balance is 0.
C20_StageRateIsEclOverBalance ==
  Served("calculate_ecl_provision") =>
    \A k \in EclLabels :
       /\ response.categories[k].num_loans = Cardinality(StagedInto(k))
       /\ response.categories[k].provision_amount
             = PyRound(ProvisionInto(k), 10000)
       /\ response.categories[k].provision_rate
             = IF BalanceInto(k) # 0
               THEN PyRound(ProvisionInto(k), BalanceInto(k))
               ELSE 0

\* The same with the rate 0 for every stage balance that is not positive.
StageRateOfPositiveBalance ==
  Served("calculate_ecl_provision") =>
    \A k \in EclLabels :
       /\ response.categories[k].num_loans = Cardinality(StagedInto(k))
       /\ response.categories[k].provision_amount
             = PyRound(ProvisionInto(k), 10000)
       /\ response.categories[k].provision_rate
             = IF BalanceInto(k) > 0
               THEN PyRound(ProvisionInto(k), BalanceInto(k))
               ELSE 0

\* The example of the specification: balance 1000, EAD% 0.9, PD 0.01 and LGD
\* 0.1 give the marginal ECL 0.9.
EclExampleReached ==
  /\ Served("calculate_ecl_provision")
  /\ Len(request.loans) = 1
  /\ request.loans[1].loan_id = 1
  /\ request.loans[1].stage = "Stage 1"
  /\ loans[1].outstanding_loan_balance = 100000
  /\ request.components[1] = [pd |-> 1, lgd |-> 1, ead |-> 9]
  /\ response.categories["Stage 1"].provision_amount = 90
  /\ response.total_provision = 90

\* The loans of the request for which the ECL aggregation computes PD, LGD
\* and EAD%: those found in the store and staged into one of the three stages.
WithComponents == UNION {StagedInto(k) : k \in EclLabels}

ComponentSum(name) ==
  SumCounts(WithComponents,
            [i \in WithComponents |->
               request.components[request.loans[i].loan_id][name]])

\* C21: the averages of PD, LGD and EAD% of the ECL aggregation are the sums
\* of the component over the loans it was computed for divided by the number
\* of those loans; a loan without components is not in the denominator.
C21_AveragesOverLoansWithComponents ==
  Served("calculate_ecl_provision") =>
    /\ response.avg_pd
         = Average(ComponentSum("pd"), 100, Cardinality(WithComponents))
    /\ response.avg_lgd
         = Average(ComponentSum("lgd"), 10, Cardinality(WithComponents))
    /\ response.avg_ead
         = Average(ComponentSum("ead"), 10, Cardinality(WithComponents))

\* The averages as the route computes them: over every loan of the request
\* that is found in the store, whatever its stage name.
AveragesOverFoundLoans ==
  Served("calculate_ecl_provision") =>
    LET found == Len(Found(request.loans))
    IN  /\ response.avg_pd = Average(ComponentSum("pd"), 100, found)
        /\ response.avg_lgd = Average(ComponentSum("lgd"), 10, found)
        /\ response.avg_ead = Average(ComponentSum("ead"), 10, found)

(***************************************************************************)
(* Claims about the route stage_loans_local_impairment.                    *)
(***************************************************************************)
RouteRequest == request.op = "stage_loans_local_impairment"

\* floor(arrears / installment x 30), 0 when either is missing or the
\* installment is not positive.
DerivedDays(loan) ==
  IF /\ loan.accumulated_arrears # NULL
     /\ loan.monthly_installment # NULL
     /\ loan.monthly_installment > 0
  THEN (loan.accumulated_arrears * 30) \div loan.monthly_installment
  ELSE 0

\* C22: a loan without days-past-due is staged by floor(arrears / installment
\* x 30), by 0 when arrears or installment is missing or the installment is
\* not positive; the value used and reported is never negative, and the call
\* does not fail because the days-past-due is absent.
C22_AbsentDaysPastDueDerived ==
  (RouteRequest /\ response.status # "HTTP 400") =>
    \A n \in 1..NumLoans :
       LET loan == loans[request.order[n]]
       IN  loan.ndia = NULL =>
             /\ response.status # "TypeError"
             /\ DerivedDays(loan) >= 0
             /\ response.status = "ok" =>
                  response.loans[n].ndia = DerivedDays(loan)

\* What the route does: a portfolio holding a loan without days-past-due is
\* never returned.
AbsentDaysPastDueFailsRoute ==
  (RouteRequest /\ \E l \in LoanIds : loans[l].ndia = NULL) =>
    response.status \in {"HTTP 400", "TypeError", "UnboundLocalError"}

\* The ranges of the request's configuration as the route parses them.
RequestRanges ==
  LET c == request.config
      rs == <<c.current, c.olem, c.substandard, c.doubtful, c.loss>>
  IN  [i \in 1..5 |-> route_parse_days_range(rs[i])]

\* C26: the label the route returns for a loan depends only on the loan's
\* days-past-due and the configuration: it is the category whose range holds
\* the value, and a loan that matches no range is not returned with the label
\* of the loan processed before it.
C26_LabelDependsOnLoanOnly ==
  (RouteRequest /\ response.status = "ok") =>
    \A n \in 1..NumLoans :
       LET category == route_category(response.loans[n].ndia, RequestRanges)
       IN  /\ category # NoLabel => response.loans[n].stage = category
           /\ (category = NoLabel /\ n > 1) =>
                 response.loans[n].stage # response.loans[n - 1].stage

\* What the route does with a loan that matches no range: it is returned with
\* the label of the loan before it, and cannot be the first loan of a
\* response.
UnmatchedLoanTakesPreviousLabel ==
  (RouteRequest /\ response.status = "ok") =>
    \A n \in 1..NumLoans :
       route_category(response.loans[n].ndia, RequestRanges) = NoLabel =>
         /\ n > 1
         /\ response.loans[n].stage = response.loans[n - 1].stage

(***************************************************************************)
(* Claims about the stored summary and the stored labels.                  *)
(***************************************************************************)
\* The loans stored with label k in the column f writes.
StoredWith(f, k) == {l \in LoanIds : StoredLabel(f, db[l]) = k}

\* The newest summary row of f's scheme counts, per category, the loans
\* stored with that label.
SummaryMatchesLabels(f) ==
  LET i == LatestResult(staging_results, staging_type(f))
  IN  /\ i # 0
      /\ staging_results[i].counts \in [Labels(f) -> Int]
      /\ \A k \in Labels(f) :
            staging_results[i].counts[k] = Cardinality(StoredWith(f, k))

\* Two calls of one function have returned success.
BothRunsSucceeded ==
  /\ pc = "idle"
  /\ suspended = IdleRun
  /\ Len(hist) = 2
  /\ hist[1].status = "success"
  /\ hist[2].status = "success"
  /\ LatestResult(staging_results, staging_type(hist[1].fn)) # 0

\* The run that returned second started from what the first one left.
OneRunAtATime == hist[2].before = hist[1].after

\* C23: two interleaved runs of one scheme with different configurations can
\* leave a summary whose counts differ from the stored labels; with at most
\* one run active at a time the summary of the finished runs counts, per
\* category, the loans stored with that label.
C23_SequentialRunsLeaveConsistentSummary ==
  (BothRunsSucceeded /\ OneRunAtATime) => SummaryMatchesLabels(hist[2].fn)

\* The ECL function by itself keeps summary and labels consistent when its
\* runs do not overlap.
EclSequentialRunsConsistent ==
  (BothRunsSucceeded /\ OneRunAtATime /\ hist[2].fn = "stage_loans_ecl_orm")
    => SummaryMatchesLabels(hist[2].fn)

\* Interleaved ECL runs have finished and the summary differs from the labels.
InterleavedRunsInconsistent ==
  /\ BothRunsSucceeded
  /\ ~OneRunAtATime
  /\ hist[2].fn = "stage_loans_ecl_orm"
  /\ ~SummaryMatchesLabels(hist[2].fn)

\* C24: after one run of stage_loans_local_impairment_orm on a static
\* population the count of every category in the summary is the number of
\* loans stored with that impairment category, whatever the configuration
\* (gaps between ranges included) and the labels held before the run.
C24_LocalCountsMatchStoredCategories ==
  (/\ pc = "idle"
   /\ Len(hist) = 1
   /\ hist[1].fn = "stage_loans_local_impairment_orm"
   /\ hist[1].status = "success") =>
     \A k \in LocalLabels :
        hist[1].summary.counts[k] = Cardinality(StoredWith(hist[1].fn, k))

\* The same for the configurations that leave no days-past-due value of the
\* population without a category.
LocalCountsMatchWithoutGaps ==
  (/\ pc = "idle"
   /\ Len(hist) = 1
   /\ hist[1].fn = "stage_loans_local_impairment_orm"
   /\ hist[1].status = "success"
   /\ \A l \in LoanIds : hist[1].staged[l] # <<NoLabel>>) =>
     \A k \in LocalLabels :
        hist[1].summary.counts[k] = Cardinality(StoredWith(hist[1].fn, k))

(***************************************************************************)
(* Claims about the summary of the async staging functions.                *)
(***************************************************************************)
AsyncSuccess ==
  /\ pc = "idle"
  /\ Len(hist) = 1
  /\ hist[1].fn \in AsyncFns
  /\ hist[1].status = "success"

\* total_loans is the sum of the counts and the balances add up to the
\* balances of all loans, in a summary of function f.
TotalsAddUp(f, summary) ==
  /\ summary.total_loans = SumCounts(Labels(f), summary.counts)
  /\ SumCounts(Labels(f), summary.balances) = SumBalance(LoanIds, loans)

\* C25: in the summary stage_loans_ecl_orm and
\* stage_loans_local_impairment_orm return and store for a static population,
\* total_loans is the sum of the category counts and the category balances
\* add up to the outstanding balances of all loans of the portfolio.
C25_SummaryTotalsAddUp ==
  AsyncSuccess =>
    LET f == hist[1].fn
        i == LatestResult(staging_results, staging_type(f))
    IN  /\ TotalsAddUp(f, hist[1].summary)
        /\ i # 0 => TotalsAddUp(f, staging_results[i])

\* The same for stage_loans_ecl_orm alone.
EclSummaryTotalsAddUp ==
  (AsyncSuccess /\ hist[1].fn = "stage_loans_ecl_orm") =>
    LET f == hist[1].fn
        i == LatestResult(staging_results, staging_type(f))
    IN  /\ TotalsAddUp(f, hist[1].summary)
        /\ i # 0 => TotalsAddUp(f, staging_results[i])

\* C27: whenever stage_loans_ecl_orm or stage_loans_local_impairment_orm
\* returns success, the store holds a summary row of the scheme with status
\* completed whose counts and balances are the returned ones, also on the
\* first run of a portfolio, when no row existed before.
C27_SuccessHasStoredSummary ==
  AsyncSuccess =>
    LET i == LatestResult(staging_results, staging_type(hist[1].fn))
    IN  /\ i # 0
        /\ staging_results[i].status = "completed"
        /\ staging_results[i].counts = hist[1].summary.counts
        /\ staging_results[i].balances = hist[1].summary.balances

\* The same for a portfolio that had a summary row of the scheme before.
SuccessUpdatesExistingSummary ==
  (AsyncSuccess /\ LatestResult(staging_results, staging_type(hist[1].fn)) # 0) =>
    LET i == LatestResult(staging_results, staging_type(hist[1].fn))
    IN  /\ staging_results[i].status = "completed"
        /\ staging_results[i].counts = hist[1].summary.counts
        /\ staging_results[i].balances = hist[1].summary.balances

(***************************************************************************)
(* Claims about the two ECL staging functions.                             *)
(***************************************************************************)
KnownDays(l) == loans[l].ndia # NULL /\ loans[l].ndia >= 0

OtherEclFn(f) ==
  IF f = "stage_loans_ecl_orm" THEN "stage_loans_ecl_orm_sync"
  ELSE "stage_loans_ecl_orm"

EclSuccess ==
  /\ pc = "idle"
  /\ Len(hist) = 1
  /\ hist[1].fn \in EclFns
  /\ hist[1].status = "success"

\* The loans the chain of function f puts in stage k under the ranges rg.
StageOf(f, rg, k) ==
  {l \in LoanIds : KnownDays(l) /\ Classify(f, loans[l].ndia, rg) = k}

\* C28: stage_loans_ecl_orm and stage_loans_ecl_orm_sync agree: for every
\* configuration a loan with a known non-negative days-past-due gets the same
\* stage from both, and the stage counts and balances are the same.
C28_EclFunctionsAgree ==
  EclSuccess =>
    LET h == hist[1]
        rg == ParsedRanges(h.fn, h.config)
        g == OtherEclFn(h.fn)
    IN  /\ \A l \in LoanIds :
              KnownDays(l) =>
                h.staged[l] = <<Classify(g, loans[l].ndia, rg)>>
        /\ (\A l \in LoanIds : KnownDays(l)) =>
              \A k \in EclLabels :
                 /\ h.summary.counts[k] = Cardinality(StageOf(g, rg, k))
                 /\ h.summary.balances[k] = SumBalance(StageOf(g, rg, k), loans)

\* With contiguous ranges starting at 0 the chain of the sync function gives a
\* loan with a known non-negative days-past-due the stage that a run of
\* stage_loans_ecl_orm gave it.
EclFunctionsAgreeWhenContiguous ==
  (/\ EclSuccess
   /\ hist[1].fn = "stage_loans_ecl_orm"
   /\ hist[1].config = ECLStagingConfig(Rng(0, 1), Rng(1, 3), Plus(3))) =>
    \A l \in LoanIds :
       KnownDays(l) =>
         hist[1].staged[l] =
           <<Classify(OtherEclFn(hist[1].fn), loans[l].ndia,
                      ParsedRanges(hist[1].fn, hist[1].config))>>

(***************************************************************************)
(* Claims about the portfolio of the aggregated loans.                     *)
(***************************************************************************)
\* The request without the staged loans that are not loans of portfolio p.
RECURSIVE OfPortfolio(_, _)
OfPortfolio(staged_loans, p) ==
  IF staged_loans = <<>> THEN <<>>
  ELSE LET rest == OfPortfolio(Tail(staged_loans), p)
       IN  IF LoanPortfolio(Head(staged_loans).loan_id) = p
           THEN <<Head(staged_loans)>> \o rest
           ELSE rest

\* C29: both aggregations serve only a portfolio of the caller, and a staged
\* loan whose id is a loan of another portfolio is skipped like one that is not
\* stored: the response is the one for the request without it.
C29_OnlyLoansOfNamedPortfolio ==
  /\ ProvisionRequest => PortfolioUser(request.portfolio_id) = "current_user"
  /\ Served("calculate_local_provision") =>
        response = LocalImpairmentSummary(
                     OfPortfolio(request.loans, request.portfolio_id),
                     request.provision_config)
  /\ Served("calculate_ecl_provision") =>
        response = ECLSummary(OfPortfolio(request.loans, request.portfolio_id),
                              request.components)

\* Only a request that names a portfolio of the caller is served.
NamedPortfolioIsOwned ==
  ProvisionRequest => PortfolioUser(request.portfolio_id) = "current_user"

\* A request that names the portfolio of the stored loans aggregates the
\* loans of that portfolio only.
OwnLoansAggregated ==
  (Served("calculate_local_provision") /\ request.portfolio_id = 1) =>
     response = LocalImpairmentSummary(
                  OfPortfolio(request.loans, request.portfolio_id),
                  request.provision_config)

(***************************************************************************)
(* Claims about the ingestion.                                             *)
(***************************************************************************)
IngestReturned ==
  /\ request.op = "ingest_portfolio_data"
  /\ ingest.pc = "done"
  /\ response.status \notin {"HTTP 400", "HTTP 404"}

FailedFiles == {f \in Files : ingest.results[f].status = "error"}

\* C30: ingestion is all-or-nothing across the uploaded files: when the
\* processing of one of them failed nothing is committed, and rows are
\* committed only when every provided file was processed with status success.
C30_IngestionAllOrNothing ==
  IngestReturned =>
     /\ FailedFiles # {} => tables = ingest.before
     /\ tables # ingest.before =>
           \A f \in Files :
              request.files[f].provided => ingest.results[f].status = "success"

\* A file whose processing failed leaves no row in its own table, and a
\* failed commit leaves no row at all.
FailedFileInsertsNothing ==
  IngestReturned =>
     /\ "loan_details" \in FailedFiles => tables.Loan = ingest.before.Loan
     /\ "loan_guarantee_data" \in FailedFiles =>
           tables.Guarantee = ingest.before.Guarantee
     /\ "loan_collateral_data" \in FailedFiles =>
           tables.Client = ingest.before.Client
     /\ response.status = "error" => tables = ingest.before

=============================================================================
